---- MODULE Spec2Model ----
(***************************************************************************)
(* EdgeNest, a pull-only mirror for OCI image manifests (src/edgenest.go). *)
(*                                                                         *)
(* A request path is a sequence of tokens: "/" is the slash character and  *)
(* every other token is a run of non-slash characters, so                  *)
(*   <<"/", "v2", "/", "library", "/", "manifests", "/", "latest">>        *)
(* is the string /v2/library/manifests/latest.  No two tokens other than   *)
(* "/" stand next to each other in a path, so a token between two slashes  *)
(* is a whole path segment.                                                *)
(*                                                                         *)
(* The mirror is built once (NewEdgeNest) and then serves requests through *)
(* an http.ServeMux on which RegisterRoutes has put one handler for "/v2/".*)
(* Requests run concurrently: Receive is the synchronous part of serving   *)
(* a request (mux dispatch, path check, method check, and the hand-over to *)
(* the reverse proxy), UpstreamRespond and UpstreamFail are the two ways   *)
(* the proxied round trip ends.  An upstream that never answers is a       *)
(* request that stays "forwarded".                                         *)
(***************************************************************************)
EXTENDS Integers, Sequences, FiniteSets, TLC

VARIABLES
    address,    \* the upstreamBase NewEdgeNest was called with
    edgeNest,   \* the *EdgeNest NewEdgeNest returned, or NoEdgeNest with err set
    err,        \* the error NewEdgeNest returned ("" for nil)
    requests,   \* the requests received so far, in order of arrival
    probe,      \* a path handed to isValidManifestPath on its own
    verdict     \* what isValidManifestPath said of probe ("" before the call)

vars == <<address, edgeNest, err, requests, probe, verdict>>

\* What NewEdgeNest leaves behind: no request changes it.
mirror == <<address, edgeNest, err>>

-----------------------------------------------------------------------------
(* Bounds *)

\* Number of requests the mirror receives in one behaviour.
MaxReqs == 2

\* Longest path, in tokens, handed to isValidManifestPath on its own.
MaxPathLen == 9

-----------------------------------------------------------------------------
(* HTTP constants used by the code *)

StatusOK == 200
StatusMovedPermanently == 301
StatusNotFound == 404
StatusMethodNotAllowed == 405
StatusInternalServerError == 500
StatusBadGateway == 502
StatusServiceUnavailable == 503

MethodGet == "GET"
MethodHead == "HEAD"
MethodConnect == "CONNECT"

Methods == {MethodGet, MethodHead, "POST", "PUT", "DELETE", "PATCH", "OPTIONS", MethodConnect}

-----------------------------------------------------------------------------
(* Request paths *)

ManifestPath == <<"/", "v2", "/", "library", "/", "alpine", "/", "manifests", "/", "latest">>
OtherManifestPath == <<"/", "v2", "/", "busybox", "/", "manifests", "/", "latest">>

\* The paths of TestManifestPathValidation, the two well-formed keys, a path
\* with an empty repository segment, the bare prefix and a path outside /v2/.
Paths ==
    { <<"/", "v2", "/">>,
      <<"/", "v2", "/", "manifests", "/", "latest">>,
      <<"/", "v2", "/", "library", "/", "alpine", "/", "manifests", "/">>,
      <<"/", "v2", "/", "library", "/", "alpine", "/", "latest">>,
      <<"/", "v2", "/", "library", "/", "alpine", "/", "manifests", "/", "latest", "/">>,
      ManifestPath,
      OtherManifestPath,
      <<"/", "v2", "/", "library", "/", "/", "manifests", "/", "latest">>,
      <<"/", "v2">>,
      <<"/", "v1", "/", "library", "/", "manifests", "/", "latest">> }

SubPath(p, from, to) == [k \in 1..(to - from + 1) |-> p[from + k - 1]]

HasPrefix(p, pre) == Len(p) >= Len(pre) /\ SubPath(p, 1, Len(pre)) = pre

HasSuffix(p, suf) ==
    Len(p) >= Len(suf) /\ SubPath(p, Len(p) - Len(suf) + 1, Len(p)) = suf

\* The reference grammar /v2/<repository>/manifests/<reference>: the
\* repository is one or more "/"-joined non-empty segments, the reference
\* one non-empty segment, nothing after it.
InGrammar(p) ==
    /\ Len(p) >= 8
    /\ Len(p) % 2 = 0
    /\ \A k \in 1..Len(p) : (p[k] = "/") <=> (k % 2 = 1)
    /\ p[2] = "v2"
    /\ p[Len(p) - 2] = "manifests"

\* regexp ^/v2/(.+)/manifests/([^/]+)$ : group 1 is p[4..i], one or more
\* characters of any kind, group 2 is p[i+4..Len(p)], one or more characters
\* other than "/".
isValidManifestPath(path) ==
    \E i \in 4..Len(path) :
        /\ HasPrefix(path, <<"/", "v2", "/">>)
        /\ i + 4 <= Len(path)
        /\ SubPath(path, i + 1, i + 3) = <<"/", "manifests", "/">>
        /\ \A j \in (i + 4)..Len(path) : path[j] # "/"

-----------------------------------------------------------------------------
(* Construction *)

\* An upstream address is a token sequence too: "://" separates the scheme
\* from the authority, "/" starts the path.
UpstreamBases ==
    { <<"http", "://", "registry.local">>,
      <<"http", "://", "registry.local", "/", "mirror">>,
      <<"registry.local">>,
      <<"http", "://", "/", "mirror">>,
      <<"://", "registry.local">> }

NoURL == [Scheme |-> "", Host |-> "", Path |-> <<>>]

\* net/url.Parse as NewEdgeNest uses it: an address that starts with "://"
\* has no scheme and does not parse; without "://" the whole address is a
\* path; after "://" comes the host, up to the first "/", then the path.
urlParse(raw) ==
    IF Len(raw) >= 1 /\ raw[1] = "://"
    THEN [u |-> NoURL, err |-> "missing protocol scheme"]
    ELSE IF Len(raw) >= 2 /\ raw[2] = "://"
    THEN LET rest == SubPath(raw, 3, Len(raw))
             hasHost == Len(rest) >= 1 /\ rest[1] # "/"
         IN  [u |-> [Scheme |-> raw[1],
                     Host |-> IF hasHost THEN rest[1] ELSE "",
                     Path |-> IF hasHost THEN SubPath(rest, 2, Len(rest)) ELSE rest],
              err |-> ""]
    ELSE [u |-> [Scheme |-> "", Host |-> "", Path |-> raw], err |-> ""]

\* A transport left at its default, which decodes gzip on its own.
CompressionLeftEnabled == FALSE

\* rp.Transport = &http.Transport{DisableCompression: true}
DisableCompression == TRUE

NoEdgeNest ==
    [isNil |-> TRUE,
     proxy |-> [target |-> NoURL, Transport |-> [DisableCompression |-> FALSE]]]

\* A constructor that forgets the scheme and host check.
NewEdgeNestUnchecked(upstreamBase) ==
    LET parsed == urlParse(upstreamBase)
    IN  IF parsed.err # ""
        THEN [e |-> NoEdgeNest, err |-> parsed.err]
        ELSE [e |-> [isNil |-> FALSE,
                     proxy |-> [target |-> parsed.u,
                                Transport |-> [DisableCompression |-> DisableCompression]]],
              err |-> ""]

NewEdgeNest(upstreamBase) ==
    LET parsed == urlParse(upstreamBase)
        u == parsed.u
    IN  IF parsed.err # ""
        THEN [e |-> NoEdgeNest, err |-> parsed.err]
        ELSE IF u.Scheme = "" \/ u.Host = ""
        THEN [e |-> NoEdgeNest, err |-> "upstream URL missing scheme or host"]
        ELSE [e |-> [isNil |-> FALSE,
                     proxy |-> [target |-> u,
                                Transport |-> [DisableCompression |-> DisableCompression]]],
              err |-> ""]

-----------------------------------------------------------------------------
(* Responses *)

ManifestBody == "{\"schemaVersion\":2}"
GzipManifestBody == "gzip({\"schemaVersion\":2})"
ManifestDigest == "sha256:c0ffee"

NoResponse ==
    [Status |-> 0, Allow |-> "", ContentType |-> "", Digest |-> "",
     Body |-> "", Location |-> <<>>]

\* What the upstream registry may answer to a forwarded request: the bytes
\* on the wire.  Digest "" is a response without Docker-Content-Digest.
UpstreamAnswers ==
    { [Status |-> StatusOK,
       ContentType |-> "application/vnd.docker.distribution.manifest.v2+json",
       Digest |-> ManifestDigest, Body |-> ManifestBody],
      [Status |-> StatusOK,
       ContentType |-> "application/vnd.oci.image.manifest.v1+json",
       Digest |-> ManifestDigest, Body |-> GzipManifestBody],
      [Status |-> StatusOK,
       ContentType |-> "application/vnd.docker.distribution.manifest.v2+json",
       Digest |-> "", Body |-> ManifestBody],
      [Status |-> StatusNotFound, ContentType |-> "application/json", Digest |-> "",
       Body |-> "{\"errors\":[{\"code\":\"MANIFEST_UNKNOWN\",\"message\":\"manifest unknown\"}]}"],
      [Status |-> StatusInternalServerError, ContentType |-> "application/json", Digest |-> "",
       Body |-> "{\"errors\":[{\"code\":\"UNKNOWN\",\"message\":\"internal error\"}]}"],
      [Status |-> StatusServiceUnavailable, ContentType |-> "text/plain", Digest |-> "",
       Body |-> "service temporarily unavailable"] }

NoAnswer == [Status |-> 0, ContentType |-> "", Digest |-> "", Body |-> ""]

NoUpstreamRequest == [Method |-> "", Host |-> "", Path |-> <<>>]

\* http.NotFound(w, r)
NotFound ==
    [NoResponse EXCEPT !.Status = StatusNotFound,
                       !.ContentType = "text/plain; charset=utf-8",
                       !.Body = "404 page not found\n"]

\* http.RedirectHandler(path, http.StatusMovedPermanently)
Redirect(path) ==
    [NoResponse EXCEPT !.Status = StatusMovedPermanently, !.Location = path]

-----------------------------------------------------------------------------
(* The reverse proxy: httputil.NewSingleHostReverseProxy(u) with the          *)
(* transport NewEdgeNest gives it                                             *)

\* httputil's singleJoiningSlash(a, b), which joins the target's path and
\* the request's path.
singleJoiningSlash(a, b) ==
    LET aslash == HasSuffix(a, <<"/">>)
        bslash == HasPrefix(b, <<"/">>)
    IN  IF aslash /\ bslash THEN a \o Tail(b)
        ELSE IF ~aslash /\ ~bslash THEN a \o <<"/">> \o b
        ELSE a \o b

\* The director of the single-host proxy: the request keeps its method, gets
\* the target's host, and its path is joined to the target's path.
Director(target, r) ==
    [Method |-> r.Method,
     Host |-> target.Host,
     Path |-> singleJoiningSlash(target.Path, r.Path)]

\* The transport's round trip, seen from the response: with compression left
\* enabled the transport asks for gzip on its own and hands on the decoded
\* body; with DisableCompression it hands on the bytes it received.
RoundTrip(transport, answer) ==
    IF ~transport.DisableCompression /\ answer.Body = GzipManifestBody
    THEN [answer EXCEPT !.Body = ManifestBody]
    ELSE answer

\* A proxy that answers the upstream's error responses with its own 502.
copyResponseHidingErrors(res) ==
    IF res.Status >= 400
    THEN [NoResponse EXCEPT !.Status = StatusBadGateway]
    ELSE [NoResponse EXCEPT !.Status = res.Status,
                            !.ContentType = res.ContentType,
                            !.Digest = res.Digest,
                            !.Body = res.Body]

\* A proxy that drops the Docker-Content-Digest header on the way back.
copyResponseWithoutDigest(res) ==
    [NoResponse EXCEPT !.Status = res.Status,
                       !.ContentType = res.ContentType,
                       !.Body = res.Body]

\* ReverseProxy.ServeHTTP after the round trip: status, headers and body of
\* the upstream's response are copied to the client.
copyResponse(res) ==
    [NoResponse EXCEPT !.Status = res.Status,
                       !.ContentType = res.ContentType,
                       !.Digest = res.Digest,
                       !.Body = res.Body]

\* An error handler that reports a failed round trip as a missing manifest.
proxyErrorAsNotFound == NotFound

\* ReverseProxy's default error handler, for a round trip that failed.
proxyError == [NoResponse EXCEPT !.Status = StatusBadGateway]

-----------------------------------------------------------------------------
(* Handlers *)

\* What the synchronous part of a handler leaves behind: either a response,
\* or a request handed to the reverse proxy.
Respond(resp) == [forwarded |-> FALSE, upstream |-> NoUpstreamRequest, response |-> resp]
Forward(up) == [forwarded |-> TRUE, upstream |-> up, response |-> NoResponse]

\* http.Error(w, "method not allowed", http.StatusMethodNotAllowed) after
\* w.Header().Set("Allow", "GET")
methodNotAllowed ==
    [NoResponse EXCEPT !.Status = StatusMethodNotAllowed,
                       !.Allow = "GET",
                       !.ContentType = "text/plain; charset=utf-8",
                       !.Body = "method not allowed\n"]

\* A handler without the method switch: every verb is proxied.
handleManifestAnyMethod(e, r) == Forward(Director(e.proxy.target, r))

\* A handler that keeps the last answer for a path, whatever its status, and
\* serves it again instead of asking the upstream.
handleManifestKeepingAnyAnswer(e, r) ==
    IF r.Method # MethodGet THEN Respond(methodNotAllowed)
    ELSE IF \E i \in 1..Len(requests) :
                requests[i].Path = r.Path /\ requests[i].answer # NoAnswer
    THEN LET i == CHOOSE k \in 1..Len(requests) :
                      requests[k].Path = r.Path /\ requests[k].answer # NoAnswer
         IN  Respond(requests[i].response)
    ELSE Forward(Director(e.proxy.target, r))

handleManifest(e, r) ==
    IF r.Method = MethodGet
    THEN Forward(Director(e.proxy.target, r))
    ELSE Respond(methodNotAllowed)

\* A handler on "/v2/" that skips the path check.
v2HandlerUnvalidated(e, r) == handleManifest(e, r)

\* The handler RegisterRoutes puts on "/v2/".
v2Handler(e, r) ==
    IF isValidManifestPath(r.Path)
    THEN handleManifest(e, r)
    ELSE Respond(NotFound)

\* net/http's cleanPath on a path without "." and ".." elements: repeated
\* slashes collapse into one, a trailing slash stays.
RECURSIVE collapseSlashes(_)
collapseSlashes(p) ==
    IF Len(p) <= 1 THEN p
    ELSE IF p[1] = "/" /\ p[2] = "/" THEN collapseSlashes(Tail(p))
    ELSE <<p[1]>> \o collapseSlashes(Tail(p))

cleanPath(p) ==
    IF p = <<>> THEN <<"/">>
    ELSE IF p[1] # "/" THEN collapseSlashes(<<"/">> \o p)
    ELSE collapseSlashes(p)

\* The mux after RegisterRoutes: "/v2/" is its only pattern.  A path that
\* is not in canonical form is redirected to its canonical form, except for
\* CONNECT; "/v2" is redirected to "/v2/"; a path outside "/v2/" is not found.
ServeMux(e, r) ==
    LET path == IF r.Method = MethodConnect THEN r.Path ELSE cleanPath(r.Path)
    IN  IF path = <<"/", "v2">> THEN Respond(Redirect(<<"/", "v2", "/">>))
        ELSE IF path # r.Path THEN Respond(Redirect(path))
        ELSE IF HasPrefix(path, <<"/", "v2", "/">>) THEN v2Handler(e, r)
        ELSE Respond(NotFound)

-----------------------------------------------------------------------------
(* The state machine *)

Init ==
    /\ address \in UpstreamBases
    /\ edgeNest = NewEdgeNest(address).e
    /\ err = NewEdgeNest(address).err
    /\ requests = <<>>
    /\ probe = <<>>
    /\ verdict = ""

\* A handler whose director writes the joined path of the request into the
\* target the mirror keeps, instead of into the outgoing request.
ReceiveRewritingTarget(method, path) ==
    /\ ~edgeNest.isNil
    /\ Len(requests) < MaxReqs
    /\ LET r == [Method |-> method, Path |-> path]
           out == ServeMux(edgeNest, r)
       IN  /\ requests' = Append(requests,
                  [Method |-> method,
                   Path |-> path,
                   state |-> IF out.forwarded THEN "forwarded" ELSE "responded",
                   upstream |-> out.upstream,
                   attempts |-> IF out.forwarded THEN 1 ELSE 0,
                   answer |-> NoAnswer,
                   failed |-> FALSE,
                   response |-> out.response])
           /\ edgeNest' = IF out.forwarded
                           THEN [edgeNest EXCEPT !.proxy.target.Path = out.upstream.Path]
                           ELSE edgeNest
    /\ UNCHANGED <<address, err, probe, verdict>>

\* A request arrives and runs up to its response or to the hand-over to the
\* reverse proxy.
Receive(method, path) ==
    /\ ~edgeNest.isNil
    /\ Len(requests) < MaxReqs
    /\ LET r == [Method |-> method, Path |-> path]
           out == ServeMux(edgeNest, r)
       IN  requests' = Append(requests,
               [Method |-> method,
                Path |-> path,
                state |-> IF out.forwarded THEN "forwarded" ELSE "responded",
                upstream |-> out.upstream,
                attempts |-> IF out.forwarded THEN 1 ELSE 0,
                answer |-> NoAnswer,
                failed |-> FALSE,
                response |-> out.response])
    /\ UNCHANGED <<mirror, probe, verdict>>

\* A mirror that holds one lock over all round trips: an answer is taken
\* only when every earlier request has been responded to.
UpstreamRespondInArrivalOrder(i, answer) ==
    /\ i \in 1..Len(requests)
    /\ requests[i].state = "forwarded"
    /\ \A k \in 1..(i - 1) : requests[k].state = "responded"
    /\ requests' = [requests EXCEPT
           ![i].state = "responded",
           ![i].answer = answer,
           ![i].response = copyResponse(RoundTrip(edgeNest.proxy.Transport, answer))]
    /\ UNCHANGED <<mirror, probe, verdict>>

\* The upstream answers a forwarded request; the proxy copies the answer.
UpstreamRespond(i, answer) ==
    /\ i \in 1..Len(requests)
    /\ requests[i].state = "forwarded"
    /\ requests' = [requests EXCEPT
           ![i].state = "responded",
           ![i].answer = answer,
           ![i].response = copyResponse(RoundTrip(edgeNest.proxy.Transport, answer))]
    /\ UNCHANGED <<mirror, probe, verdict>>

\* A handler that calls the proxy again after a failed round trip, up to
\* three times.
UpstreamFailRetrying(i) ==
    /\ i \in 1..Len(requests)
    /\ requests[i].state = "forwarded"
    /\ requests' = [requests EXCEPT
           ![i].state = IF requests[i].attempts < 3 THEN "forwarded" ELSE "responded",
           ![i].attempts = IF requests[i].attempts < 3 THEN @ + 1 ELSE @,
           ![i].failed = requests[i].attempts >= 3,
           ![i].response = IF requests[i].attempts < 3 THEN NoResponse ELSE proxyError]
    /\ UNCHANGED <<mirror, probe, verdict>>

\* The round trip to the upstream fails (connection refused, reset, ...).
UpstreamFail(i) ==
    /\ i \in 1..Len(requests)
    /\ requests[i].state = "forwarded"
    /\ requests' = [requests EXCEPT
           ![i].state = "responded",
           ![i].failed = TRUE,
           ![i].response = proxyError]
    /\ UNCHANGED <<mirror, probe, verdict>>

Next ==
    \/ \E method \in Methods, path \in Paths : Receive(method, path)
    \/ \E i \in 1..MaxReqs, answer \in UpstreamAnswers : UpstreamRespond(i, answer)
    \/ \E i \in 1..MaxReqs : UpstreamFail(i)

Spec == Init /\ [][Next]_vars

\* The server runs the handler of every request it is given; nothing makes
\* the upstream answer or the round trip fail, and the transport of
\* NewEdgeNest sets no timeout that would end a round trip on its own.
FairSpec ==
    Spec /\ WF_vars(\E method \in Methods, path \in Paths : Receive(method, path))

-----------------------------------------------------------------------------
(* isValidManifestPath on its own *)

PathTokens == {"/", "v2", "manifests", "a"}

\* Every path of at most MaxPathLen tokens in which no two tokens other than
\* "/" stand next to each other.
ProbePaths ==
    {p \in UNION {[1..n -> PathTokens] : n \in 0..MaxPathLen} :
        \A k \in 1..(Len(p) - 1) : p[k] = "/" \/ p[k + 1] = "/"}

PathInit ==
    /\ address = <<"http", "://", "registry.local">>
    /\ edgeNest = NewEdgeNest(address).e
    /\ err = NewEdgeNest(address).err
    /\ requests = <<>>
    /\ probe \in ProbePaths
    /\ verdict = ""

Validate ==
    /\ verdict = ""
    /\ verdict' = IF isValidManifestPath(probe) THEN "valid" ELSE "invalid"
    /\ UNCHANGED <<mirror, requests, probe>>

PathSpec == PathInit /\ [][Validate]_vars

-----------------------------------------------------------------------------
(* Vocabulary of the properties *)

Received == 1..Len(requests)

\* The request was sent on to the upstream.
Contacted(i) == requests[i].upstream # NoUpstreamRequest

\* The upstream answered request i with a response (not a transport failure).
Answered(i) == requests[i].state = "responded" /\ requests[i].answer # NoAnswer

\* The answer the specification admits to the cache: status 200 with a digest.
Cacheable(answer) == answer.Status = StatusOK /\ answer.Digest # ""

\* A fetch for path p has completed with an answer the cache would hold.
Cached(p) ==
    \E i \in Received :
        requests[i].Path = p /\ Answered(i) /\ Cacheable(requests[i].answer)

\* Number of requests sent to the upstream for path p so far.
UpstreamCalls(p) ==
    Cardinality({i \in Received : requests[i].Path = p /\ Contacted(i)})

-----------------------------------------------------------------------------
(* Properties *)

\* C1: every request whose path is outside the grammar
\* /v2/<repository>/manifests/<reference> is answered 404 and is never sent
\* to the upstream.
C1_MalformedPathNotFound ==
    \A i \in Received :
        ~InGrammar(requests[i].Path) =>
            /\ requests[i].state = "responded"
            /\ requests[i].response.Status = StatusNotFound
            /\ ~Contacted(i)

C3_AllowGetHead ==
    \A i \in Received :
        requests[i].response.Status = StatusMethodNotAllowed =>
            requests[i].response.Allow = "GET, HEAD"

\* C4: a HEAD request on a well-formed manifest path is never answered 405;
\* it is sent to the upstream as a HEAD, and its response has an empty body
\* and the status, Content-Type and digest the upstream gave.
C4_HeadAccepted ==
    \A i \in Received :
        (InGrammar(requests[i].Path) /\ requests[i].Method = MethodHead) =>
            /\ requests[i].response.Status # StatusMethodNotAllowed
            /\ requests[i].upstream.Method = MethodHead
            /\ Answered(i) =>
                 /\ requests[i].response.Status = requests[i].answer.Status
                 /\ requests[i].response.ContentType = requests[i].answer.ContentType
                 /\ requests[i].response.Digest = requests[i].answer.Digest
                 /\ requests[i].response.Body = ""

\* C5: once a GET for a key has been answered by the upstream with a
\* cacheable response, every later GET or HEAD for that key is answered at
\* once with that Content-Type, digest and body (no body for HEAD), and the
\* number of requests sent to the upstream for the key does not grow.
C5_HitServedFromCache ==
    [][\A p \in Paths :
          Cached(p) =>
            /\ UpstreamCalls(p)' = UpstreamCalls(p)
            /\ (/\ Len(requests') = Len(requests) + 1
                /\ requests'[Len(requests')].Path = p
                /\ requests'[Len(requests')].Method \in {MethodGet, MethodHead}) =>
                 \E i \in Received :
                    /\ requests[i].Path = p
                    /\ Answered(i)
                    /\ Cacheable(requests[i].answer)
                    /\ requests'[Len(requests')].state = "responded"
                    /\ requests'[Len(requests')].response.Status = StatusOK
                    /\ requests'[Len(requests')].response.ContentType =
                           requests[i].answer.ContentType
                    /\ requests'[Len(requests')].response.Digest = requests[i].answer.Digest
                    /\ requests'[Len(requests')].response.Body =
                           IF requests'[Len(requests')].Method = MethodHead
                           THEN "" ELSE requests[i].answer.Body]_vars

\* C6: of the concurrent first requests for one key only one is sent to the
\* upstream: while the fetch of an earlier request for the key is in flight,
\* a later request for the same key has no upstream request of its own, and
\* a request answered without an upstream request of its own carries the
\* Content-Type, digest and body of the fetch it shared.
C6_SingleFlight ==
    \A i, j \in Received :
        (/\ i < j
         /\ requests[i].Path = requests[j].Path
         /\ InGrammar(requests[i].Path)
         /\ requests[i].Method = MethodGet
         /\ requests[j].Method = MethodGet) =>
            /\ requests[i].state = "forwarded" => ~Contacted(j)
            /\ (/\ Answered(i)
                /\ Cacheable(requests[i].answer)
                /\ requests[j].state = "responded"
                /\ ~Contacted(j)) =>
                   /\ requests[j].response.ContentType = requests[i].response.ContentType
                   /\ requests[j].response.Digest = requests[i].response.Digest
                   /\ requests[j].response.Body = requests[i].response.Body

\* C7: an upstream answer with status 404, 500 or 503 reaches the client
\* with that status and that body.
C7_UpstreamErrorPassedThrough ==
    \A i \in Received :
        (/\ Answered(i)
         /\ requests[i].answer.Status \in
              {StatusNotFound, StatusInternalServerError, StatusServiceUnavailable}) =>
            /\ requests[i].response.Status = requests[i].answer.Status
            /\ requests[i].response.Body = requests[i].answer.Body

C7_Witness ==
    \E i \in Received :
        /\ Answered(i)
        /\ requests[i].answer.Status = StatusServiceUnavailable
        /\ requests[i].response.Body = "service temporarily unavailable"

\* C8: nothing is kept from an upstream error response, a failed round trip
\* or a 200 without digest: a GET on a well-formed path that follows such an
\* outcome for the same key is sent to the upstream again.  (The mirror holds
\* no cache entries at all, so none is ever admitted.)
C8_UncacheableNeverKept ==
    \A i, j \in Received :
        (/\ i < j
         /\ requests[i].Path = requests[j].Path
         /\ InGrammar(requests[j].Path)
         /\ requests[j].Method = MethodGet
         /\ requests[i].state = "responded"
         /\ Contacted(i)
         /\ ~Cacheable(requests[i].answer)) =>
            Contacted(j)

C8_Witness ==
    \E i, j \in Received :
        /\ i < j
        /\ requests[i].Path = ManifestPath
        /\ requests[j].Path = ManifestPath
        /\ Answered(i)
        /\ requests[i].answer.Status = StatusInternalServerError
        /\ requests[j].Method = MethodGet
        /\ requests[j].state = "forwarded"
        /\ Contacted(j)

\* C9 as claimed: every 200 response the mirror sends carries a non-empty
\* Docker-Content-Digest.
C9_Every200HasDigest ==
    \A i \in Received :
        requests[i].response.Status = StatusOK => requests[i].response.Digest # ""

\* C9 as amended: every 200 response the mirror sends carries the
\* Docker-Content-Digest of the upstream response it was made from, so it is
\* non-empty exactly when the upstream sent one.
C9_DigestIsUpstreams ==
    \A i \in Received :
        requests[i].response.Status = StatusOK =>
            /\ Answered(i)
            /\ requests[i].response.Digest = requests[i].answer.Digest

C9_Witness ==
    \E i, j \in Received :
        /\ requests[i].response.Status = StatusOK
        /\ requests[i].response.Digest = ManifestDigest
        /\ requests[j].response.Status = StatusOK
        /\ requests[j].answer.Digest = ""

\* C10: a GET on a well-formed path that the upstream answers with 200
\* reaches the client as 200 with the upstream's Content-Type, digest and
\* body, byte for byte.
C10_SuccessUnchanged ==
    \A i \in Received :
        (/\ requests[i].Method = MethodGet
         /\ InGrammar(requests[i].Path)
         /\ Answered(i)
         /\ requests[i].answer.Status = StatusOK) =>
            /\ requests[i].response.Status = StatusOK
            /\ requests[i].response.ContentType = requests[i].answer.ContentType
            /\ requests[i].response.Digest = requests[i].answer.Digest
            /\ requests[i].response.Body = requests[i].answer.Body

C10_Witness ==
    \E i \in Received :
        /\ requests[i].Method = MethodGet
        /\ requests[i].Path = ManifestPath
        /\ requests[i].answer.Status = StatusOK
        /\ requests[i].answer.Body = GzipManifestBody
        /\ requests[i].response.Body = GzipManifestBody

\* C11: the request that reaches the upstream has the path and the method
\* of the request the mirror received, whatever address the mirror was built
\* with.
C11_PathAndMethodPreserved ==
    \A i \in Received :
        Contacted(i) =>
            /\ requests[i].upstream.Path = requests[i].Path
            /\ requests[i].upstream.Method = requests[i].Method

\* An address with a scheme before "://" and a host right after it.
HasSchemeAndHost(raw) ==
    /\ Len(raw) >= 3
    /\ raw[1] # "://"
    /\ raw[2] = "://"
    /\ raw[3] \notin {"/", "://"}

\* C12: built from an address without scheme or host, or one that does not
\* parse, NewEdgeNest returns an error and no mirror, and no request is ever
\* handled; built from an address with scheme and host it returns a mirror
\* and no error.
C12_ConstructionFailsFast ==
    IF HasSchemeAndHost(address)
    THEN ~edgeNest.isNil /\ err = ""
    ELSE edgeNest.isNil /\ err # "" /\ requests = <<>>

C12_Witness ==
    /\ address = <<"http", "://", "/", "mirror">>
    /\ edgeNest = NoEdgeNest
    /\ err = "upstream URL missing scheme or host"

\* C13: a forwarded request whose round trip to the upstream fails (the
\* upstream is unreachable, or the round trip ends in a timeout error) is
\* answered with a 5xx status after one attempt, and nothing is kept for its
\* key: a later GET for the key goes to the upstream again.
C13_UnreachableIsServerError ==
    \A i \in Received :
        requests[i].failed =>
            /\ requests[i].state = "responded"
            /\ requests[i].response.Status \in 500..599
            /\ requests[i].attempts = 1
            /\ \A j \in Received :
                 (/\ i < j
                  /\ requests[j].Path = requests[i].Path
                  /\ requests[j].Method = MethodGet) => Contacted(j)

C13_Witness ==
    \E i, j \in Received :
        /\ i < j
        /\ requests[i].failed
        /\ requests[i].response.Status = StatusBadGateway
        /\ requests[j].Path = requests[i].Path
        /\ requests[j].attempts = 1
        /\ requests[j].failed

\* C14: the path is checked before the method: a request with a path
\* outside the grammar and a method other than GET and HEAD is answered 404
\* and is not sent to the upstream, and a 405 is only given for a path of
\* the grammar.
C14_PathCheckedBeforeMethod ==
    \A i \in Received :
        /\ (~InGrammar(requests[i].Path) /\ requests[i].Method \notin {MethodGet, MethodHead}) =>
              /\ requests[i].response.Status = StatusNotFound
              /\ ~Contacted(i)
        /\ requests[i].response.Status = StatusMethodNotAllowed =>
              InGrammar(requests[i].Path)

\* C15: every request the mirror has received is eventually responded to,
\* whatever the upstream does, and a request that has been responded to
\* does not change any more.
C15_AlwaysResponded ==
    /\ \A i \in 1..MaxReqs :
          (i \in Received) ~> (i \in Received /\ requests[i].state = "responded")
    /\ [][\A i \in Received :
            requests[i].state = "responded" => requests'[i] = requests[i]]_vars

\* C16: isValidManifestPath accepts a path exactly when the path is in the
\* grammar: /v2/, one or more non-empty repository segments joined by "/",
\* /manifests/, one non-empty reference segment, and nothing else.
C16_ValidatorAgreesWithGrammar ==
    verdict # "" => ((verdict = "valid") <=> InGrammar(probe))

\* C17: a request that arrives while the fetch of an earlier request for
\* the same key is in flight joins that fetch: it calls the upstream not at
\* all, it is not responded to before the earlier fetch has ended, and it
\* then gets the outcome of that fetch, a response or a failure.
C17_JoinerSharesOwnerOutcome ==
    \A i, j \in Received :
        (/\ i < j
         /\ requests[i].Path = requests[j].Path
         /\ InGrammar(requests[i].Path)
         /\ requests[i].Method = MethodGet
         /\ requests[j].Method = MethodGet) =>
            /\ requests[i].state = "forwarded" =>
                 /\ requests[j].attempts = 0
                 /\ requests[j].state # "responded"
            /\ (/\ requests[i].state = "responded"
                /\ requests[j].state = "responded"
                /\ requests[j].attempts = 0) =>
                   /\ requests[j].response = requests[i].response
                   /\ requests[j].failed = requests[i].failed

\* C18: a request for one key does not wait for a fetch for another key:
\* while a fetch is in flight, a GET for a different key can be received and
\* forwarded, and any answer of the upstream to it can be taken and sent on.
C18_KeysDoNotContend ==
    \A i \in Received :
        requests[i].state = "forwarded" =>
            /\ Len(requests) < MaxReqs =>
                 \A p \in {ManifestPath, OtherManifestPath} \ {requests[i].Path} :
                     ENABLED Receive(MethodGet, p)
            /\ \A j \in Received :
                 (/\ requests[j].Path # requests[i].Path
                  /\ requests[j].state = "forwarded") =>
                     \A answer \in UpstreamAnswers : ENABLED UpstreamRespond(j, answer)

C18_Witness ==
    \E i, j \in Received :
        /\ i < j
        /\ requests[i].Path = ManifestPath
        /\ requests[i].state = "forwarded"
        /\ requests[j].Path = OtherManifestPath
        /\ Answered(j)
        /\ requests[j].response.Status = StatusOK
        /\ requests[j].response.Body = ManifestBody

\* C19: the handler calls the reverse proxy at most once for a request,
\* whether the upstream answers with success, with an error, or the round
\* trip fails.
C19_NoRetry ==
    \A i \in Received :
        /\ requests[i].attempts <= 1
        /\ Contacted(i) <=> requests[i].attempts = 1

C19_Witness ==
    \E i, j \in Received :
        /\ requests[i].failed
        /\ requests[i].attempts = 1
        /\ Answered(j)
        /\ requests[j].answer.Status = StatusInternalServerError
        /\ requests[j].attempts = 1

\* The mux answered the request itself, with a redirect, before any handler.
Redirected(i) ==
    ~Contacted(i) /\ requests[i].response.Status = StatusMovedPermanently

\* The three outcomes of the dispatch.
RejectedNotFound(i) ==
    ~Contacted(i) /\ requests[i].response.Status = StatusNotFound
RejectedNotAllowed(i) ==
    ~Contacted(i) /\ requests[i].response.Status = StatusMethodNotAllowed
Forwarded(i) == Contacted(i) /\ requests[i].attempts >= 1

C21_MirrorUnchanged ==
    [][/\ mirror' = mirror
       /\ \A i, j \in 1..Len(requests') :
            (/\ requests'[i].state = "responded"
             /\ requests'[j].state = "responded"
             /\ requests'[i].Method = requests'[j].Method
             /\ requests'[i].Path = requests'[j].Path
             /\ requests'[i].answer = requests'[j].answer
             /\ requests'[i].failed = requests'[j].failed) =>
                requests'[i].response = requests'[j].response]_vars

C21_Witness ==
    \E i, j \in Received :
        /\ i < j
        /\ requests[i].Method = MethodGet
        /\ requests[j].Method = MethodGet
        /\ requests[i].Path = ManifestPath
        /\ requests[j].Path = ManifestPath
        /\ Answered(i)
        /\ Answered(j)
        /\ requests[i].answer = requests[j].answer
        /\ requests[i].response = requests[j].response
        /\ requests[i].response.Status = StatusOK
        /\ edgeNest = NewEdgeNest(address).e
        /\ edgeNest.proxy.target.Path # <<>>

====
